---- MODULE Spec2Model ----
(***************************************************************************)
(* Model of the giab-truvari-pipe scripts:                                 *)
(*   - run_pipeline.py: main, run_snakemake_pipeline,                      *)
(*     generate_summary_table, generate_readme                             *)
(*   - stratified_performance_metrics.py: the metrics aggregator           *)
(*                                                                         *)
(* Text is a sequence of atoms (strings).  The atoms "{" and "}" are the   *)
(* brace characters, "\n" the line break, "|" the column delimiter; an     *)
(* identifier such as "summary_table" is one atom.                         *)
(***************************************************************************)
EXTENDS Integers, Sequences, FiniteSets, TLC

VARIABLES
    \* ---- run_pipeline.py: the driver process
    pc,             \* position of the driver in main and the functions it calls
    argv,           \* the command line: "none", "skip", "help" or "bad"
    trace,          \* history: the steps taken and the messages printed, in order
    exitStatus,     \* -1 while running, else the process exit status
    uncaught,       \* TRUE when the process ended by an unhandled exception
    summary_table,  \* main's local: the text generate_summary_table returned
    filled_text,    \* generate_readme's local
    \* ---- the file system the driver sees
    csvFile,        \* summary_reports/combined_summary_report.csv
    tplFile,        \* README-eval-template.md
    outFile,        \* giab-evaluation-README.md
    \* ---- the workflow child and its two pipes
    child,          \* "none", "running" or "exited"
    script,         \* the writes the child performs, in order: "out" or "err"
    cpos,           \* the number of writes the child has completed
    returncode,     \* the child's exit status
    outPipe,        \* lines in the stdout pipe (line = index of the write in script)
    errPipe,        \* lines in the stderr pipe
    fwd,            \* lines the parent forwarded, in order: <<stream, line>>
    launches,       \* how many times Popen started the child
    \* ---- generate_readme's rendering, on its own (template_text.format)
    f_pc, f_tpl, f_table, f_res,
    \* ---- generate_summary_table's conversion, on its own (read_csv, tabulate)
    t_pc, t_csv, t_res,
    \* ---- stratified_performance_metrics.py
    m_pc, m_file, m_sums

drvVars  == <<pc, argv, trace, exitStatus, uncaught, summary_table, filled_text,
              csvFile, tplFile, outFile,
              child, script, cpos, returncode, outPipe, errPipe, fwd, launches>>
fmtVars  == <<f_pc, f_tpl, f_table, f_res>>
tabVars  == <<t_pc, t_csv, t_res>>
metVars  == <<m_pc, m_file, m_sums>>
vars     == <<drvVars, fmtVars, tabVars, metVars>>

----------------------------------------------------------------------------
(* Bounds of the model *)

MaxChildLines == 3     \* lines the workflow child writes before it exits
PipeCap       == 1     \* lines an OS pipe holds before a write blocks
MaxExtras     == 1     \* extra pieces before / after a template's placeholders
MaxRows       == 2     \* data rows of a CSV or TSV input
MaxCount      == 2     \* largest count in a cell of the metrics table

----------------------------------------------------------------------------
(* Text helpers *)

RECURSIVE Concat(_)
Concat(ss) == IF ss = <<>> THEN <<>> ELSE Head(ss) \o Concat(Tail(ss))

RECURSIVE Join(_, _)
Join(ss, sep) ==
    IF ss = <<>> THEN <<>>
    ELSE IF Len(ss) = 1 THEN ss[1]
    ELSE ss[1] \o sep \o Join(Tail(ss), sep)

Count(a, s) == Cardinality({i \in 1..Len(s) : s[i] = a})

\* sub occurs in s as a contiguous run
Contains(s, sub) ==
    \E i \in 0..(Len(s) - Len(sub)) : SubSeq(s, i + 1, i + Len(sub)) = sub

SeqsUpTo(S, n) == UNION {[1..k -> S] : k \in 0..n}

----------------------------------------------------------------------------
(* template_text.format: str.format called with keyword arguments only *)

KeyOrder == <<"pipeline_name", "date_of_run", "snakemake_version",
              "pipeline_version", "truvari_version", "pandas_version",
              "tabulate_version", "summary_table">>
KeyNames == {KeyOrder[i] : i \in 1..Len(KeyOrder)}

\* The keyword arguments generate_readme passes to format
Substitutions(table) ==
    [k \in KeyNames |->
        CASE k = "pipeline_name"     -> <<"Truvari Analysis">>
          [] k = "date_of_run"       -> <<"YYYY-MM-DD">>
          [] k = "snakemake_version" -> <<"snakemake.version">>
          [] k = "pipeline_version"  -> <<"1.2.0">>
          [] k = "truvari_version"   -> <<"v4.2.2-dev">>
          [] k = "pandas_version"    -> <<"pandas.version">>
          [] k = "tabulate_version"  -> <<"tabulate.version">>
          [] k = "summary_table"     -> table]

\* Index of the first "}" at or after i, 0 when there is none
RECURSIVE CloseBrace(_, _)
CloseBrace(t, i) ==
    IF i > Len(t) THEN 0
    ELSE IF t[i] = "}" THEN i
    ELSE CloseBrace(t, i + 1)

\* RenderField leaving the placeholder in place
RenderField_reparse(kw, name) == <<"{", name, "}">>

\* The text a replacement field renders to: the value is inserted as it is
RenderField(kw, name) == kw[name]

\* The scan of the format string from position i; acc is the output so far.
\* "{{" and "}}" are escapes; "{" name "}" is a replacement field; a field
\* with no name is positional (there are no positional arguments).
RECURSIVE FormatFrom(_, _, _, _)
FormatFrom(t, i, kw, acc) ==
    IF i > Len(t) THEN [status |-> "ok", text |-> acc]
    ELSE IF t[i] = "}" THEN
        IF i < Len(t) /\ t[i + 1] = "}"
        THEN FormatFrom(t, i + 2, kw, Append(acc, "}"))
        ELSE [status |-> "ValueError", text |-> <<>>]
    ELSE IF t[i] = "{" THEN
        IF i = Len(t) THEN [status |-> "ValueError", text |-> <<>>]
        ELSE IF t[i + 1] = "{" THEN FormatFrom(t, i + 2, kw, Append(acc, "{"))
        ELSE LET j == CloseBrace(t, i + 1)
                 field == SubSeq(t, i + 1, j - 1)
             IN  IF j = 0 \/ \E n \in 1..Len(field) : field[n] = "{"
                 THEN [status |-> "ValueError", text |-> <<>>]
                 ELSE IF field = <<>>
                 THEN [status |-> "IndexError", text |-> <<>>]
                 ELSE IF Len(field) = 1 /\ field[1] \in DOMAIN kw
                 THEN FormatFrom(t, j + 1, kw, acc \o RenderField(kw, field[1]))
                 ELSE [status |-> "KeyError", text |-> <<>>]
    ELSE FormatFrom(t, i + 1, kw, Append(acc, t[i]))

Format(t, kw) == FormatFrom(t, 1, kw, <<>>)

\* ---- what a format string is made of, read off the string itself

\* The replacement fields of t, in order (escapes skipped).  A brace that
\* neither belongs to an escape nor delimits a field is recorded as the
\* field <<"{">>, which is no name, and ends the scan.
RECURSIVE FieldsFrom(_, _)
FieldsFrom(t, i) ==
    IF i > Len(t) THEN <<>>
    ELSE IF t[i] = "}" THEN
        IF i < Len(t) /\ t[i + 1] = "}" THEN FieldsFrom(t, i + 2) ELSE << <<"{">> >>
    ELSE IF t[i] = "{" THEN
        IF i = Len(t) THEN << <<"{">> >>
        ELSE IF t[i + 1] = "{" THEN FieldsFrom(t, i + 2)
        ELSE LET j == CloseBrace(t, i + 1)
             IN  IF j = 0 THEN << <<"{">> >>
                 ELSE <<SubSeq(t, i + 1, j - 1)>> \o FieldsFrom(t, j + 1)
    ELSE FieldsFrom(t, i + 1)

Fields(t) == FieldsFrom(t, 1)
FieldSet(t) == {Fields(t)[i] : i \in 1..Len(Fields(t))}

\* Literal braces of t: each "{{" or "}}" escape stands for one brace
RECURSIVE EscapesFrom(_, _)
EscapesFrom(t, i) ==
    IF i >= Len(t) THEN 0
    ELSE IF t[i] \in {"{", "}"} /\ t[i + 1] = t[i] THEN 1 + EscapesFrom(t, i + 2)
    ELSE IF t[i] = "{" THEN
        LET j == CloseBrace(t, i + 1) IN IF j = 0 THEN 0 ELSE EscapesFrom(t, j + 1)
    ELSE EscapesFrom(t, i + 1)

Escapes(t) == EscapesFrom(t, 1)

Braces(s) == Count("{", s) + Count("}", s)

----------------------------------------------------------------------------
(* generate_summary_table: pd.read_csv, then tabulate(..., tablefmt="pipe", *)
(* headers="keys", floatfmt=".4f", showindex=False)                        *)
(*                                                                         *)
(* A CSV file is [header: names, rows: rows of raw cells].  A cell is      *)
(*   [k |-> "int", v |-> n]     an integer literal                         *)
(*   [k |-> "float", v |-> n]   a decimal literal, n / FloatScale          *)
(*   [k |-> "nan"]              an empty cell (a missing value)            *)
(*   [k |-> "str", s |-> a]     any other text                             *)

FloatScale == 100000

DigitChar == <<"0", "1", "2", "3", "4", "5", "6", "7", "8", "9">>

RECURSIVE Digits(_)
Digits(n) ==
    IF n < 10 THEN <<DigitChar[n + 1]>>
    ELSE Append(Digits(n \div 10), DigitChar[(n % 10) + 1])

\* format(n, ""): an integer in decimal
IntText(n) == IF n < 0 THEN <<"-">> \o Digits(-n) ELSE Digits(n)

\* n zero-padded on the left to w digits
RECURSIVE ZeroPad(_, _)
ZeroPad(s, w) == IF Len(s) >= w THEN s ELSE ZeroPad(<<"0">> \o s, w)

\* format(x, ".4f") for x = v / FloatScale, v >= 0: rounded to 4 decimals
Fixed4Abs(v) ==
    LET q == v \div (FloatScale \div 10000)
        r == v % (FloatScale \div 10000)
        h == (FloatScale \div 10000) \div 2
        up == r > h \/ (r = h /\ q % 2 = 1)
        n == IF up THEN q + 1 ELSE q
    IN  Digits(n \div 10000) \o <<".">> \o ZeroPad(Digits(n % 10000), 4)

Fixed4(v) == IF v < 0 THEN <<"-">> \o Fixed4Abs(-v) ELSE Fixed4Abs(v)

\* ---- pd.read_csv: the first line is the header, each column gets a dtype
ColumnCells(rows, c) == [r \in 1..Len(rows) |-> rows[r][c]]

Kinds(cells) == {cells[i].k : i \in 1..Len(cells)}

InferDtype(cells) ==
    IF cells = <<>> \/ "str" \in Kinds(cells) THEN "object"
    ELSE IF Kinds(cells) \subseteq {"int"} THEN "int64"
    ELSE "float64"

\* a cell as stored in a column of the given dtype
Astype(cell, dtype) ==
    IF dtype = "float64" /\ cell.k = "int"
    THEN [k |-> "float", v |-> cell.v * FloatScale]
    ELSE cell

ReadCsv(file) ==
    LET ncols  == Len(file.header)
        dtypes == [c \in 1..ncols |-> InferDtype(ColumnCells(file.rows, c))]
    IN  [columns |-> file.header,
         dtypes  |-> dtypes,
         rows    |-> [r \in 1..Len(file.rows) |->
                        [c \in 1..ncols |-> Astype(file.rows[r][c], dtypes[c])]]]

\* ---- tabulate on a DataFrame
\* Values always giving a float array
Values_float(df) ==
    [r \in 1..Len(df.rows) |->
        [c \in 1..Len(df.columns) |->
            IF df.rows[r][c].k = "int" THEN Astype(df.rows[r][c], "float64")
            ELSE df.rows[r][c]]]

\* DataFrame.values: one array for the whole frame, of the columns' common
\* dtype.  Integer and float columns together give a float64 array, in
\* which the integers are floats; with a text column it is an object array
\* and each cell keeps its own type.
Values(df) ==
    LET dts == {df.dtypes[c] : c \in 1..Len(df.dtypes)}
    IN  IF dts \subseteq {"int64", "float64"} /\ "float64" \in dts
        THEN [r \in 1..Len(df.rows) |->
                [c \in 1..Len(df.columns) |-> Astype(df.rows[r][c], "float64")]]
        ELSE df.rows

\* tabulate's column type: the most general type among the column's cells
ColumnType(cells) ==
    IF "str" \in Kinds(cells) THEN "str"
    ELSE IF Kinds(cells) \cap {"float", "nan"} # {} THEN "float"
    ELSE IF "int" \in Kinds(cells) THEN "int"
    ELSE "str"

\* tabulate's _format: floatfmt applies to a float column, intfmt ("") to an
\* int column
FormatCell(cell, coltype) ==
    CASE cell.k = "nan"   -> <<"nan">>
      [] cell.k = "str"   -> <<cell.s>>
      [] cell.k = "float" -> Fixed4(cell.v)
      [] cell.k = "int"   -> IF coltype = "float"
                             THEN Fixed4(cell.v * FloatScale)
                             ELSE IntText(cell.v)

\* one line of the pipe format (the padding blanks are left out)
PipeLine(cells) == <<"|">> \o Concat([i \in 1..Len(cells) |-> cells[i] \o <<"|">>])

\* the line under the header: the alignment of each column
AlignCell(coltype) == IF coltype \in {"int", "float"} THEN <<"-", ":">> ELSE <<":", "-">>

TabulateLines(df) ==
    LET vals == Values(df)
        n    == Len(df.columns)
        ct   == [c \in 1..n |-> ColumnType(ColumnCells(vals, c))]
    IN  <<PipeLine([c \in 1..n |-> <<df.columns[c]>>]),
          PipeLine([c \in 1..n |-> AlignCell(ct[c])])>>
        \o [r \in 1..Len(vals) |->
              PipeLine([c \in 1..n |-> FormatCell(vals[r][c], ct[c])])]

Tabulate(df) == Join(TabulateLines(df), <<"\n">>)

\* ---- reading a rendered table back: its lines and their cells
RECURSIVE Split(_, _)
Split(s, sep) ==
    LET hit == {i \in 1..Len(s) : s[i] = sep}
    IN  IF hit = {} THEN <<s>>
        ELSE LET i == CHOOSE x \in hit : \A y \in hit : x <= y
             IN  <<SubSeq(s, 1, i - 1)>> \o Split(SubSeq(s, i + 1, Len(s)), sep)

\* the cells of a pipe line "|a|b|": what lies between the delimiters
LineCells(line) ==
    LET parts == Split(line, "|") IN SubSeq(parts, 2, Len(parts) - 1)

\* digits after the decimal point of a cell's text, -1 when there is no point
Decimals(text) ==
    IF Count(".", text) = 0 THEN -1
    ELSE Len(text) - (CHOOSE i \in 1..Len(text) : text[i] = ".")

----------------------------------------------------------------------------
(* The inputs of the driver: the files it may find *)

Piece(k) == <<"{", k, "}">>

\* what a template may hold besides the driver's placeholders
Extras == { <<"text">>, <<"{", "{">>, <<"}", "}">>, <<"{">>, <<"}">>, <<"{", "}">>,
            Piece("unknown_key"), Piece("summary_table") }

\* a template: extra pieces, then the placeholders of S in KeyOrder, then
\* extra pieces
BuildTemplate(pre, S, post) ==
    Concat(pre)
    \o Concat([i \in 1..Len(KeyOrder) |->
                 IF KeyOrder[i] \in S THEN Piece(KeyOrder[i]) \o <<"text">> ELSE <<>>])
    \o Concat(post)

IntCell(n)   == [k |-> "int", v |-> n]
FloatCell(n) == [k |-> "float", v |-> n]
StrCell(a)   == [k |-> "str", s |-> a]
NanCell      == [k |-> "nan"]

DriverCsvs ==
    { [header |-> <<"sample", "TP", "f1">>,
       rows   |-> << <<StrCell("HG002"), IntCell(12), FloatCell(98765)>> >>],
      [header |-> <<"{", "}">>,
       rows   |-> << <<IntCell(3), FloatCell(50000)>> >>] }

DriverTemplates ==
    { BuildTemplate(<<>>, KeyNames, <<>>),
      BuildTemplate(<< <<"{", "{">> >>, KeyNames, << <<"}", "}">> >>),
      BuildTemplate(<<>>, KeyNames, << Piece("unknown_key") >>),
      BuildTemplate(<<>>, KeyNames \ {"summary_table"}, << <<"{">> >>) }

CsvFiles ==
    { [state |-> "absent", data |-> <<>>], [state |-> "unreadable", data |-> <<>>] }
    \cup { [state |-> "ok", data |-> d] : d \in DriverCsvs }

TplFiles ==
    { [state |-> "absent", text |-> <<>>], [state |-> "unreadable", text |-> <<>>] }
    \cup { [state |-> "ok", text |-> t] : t \in DriverTemplates }

\* mode: what opening and writing the output file will do
OutFiles ==
    { [mode |-> m, exists |-> e, text |-> IF e THEN <<"old">> ELSE <<>>] :
        m \in {"ok", "open_fails", "write_fails"}, e \in BOOLEAN }

ChildScripts == SeqsUpTo({"out", "err"}, MaxChildLines)

----------------------------------------------------------------------------
(* run_pipeline.py *)

DrvInit ==
    /\ pc = "main"
    /\ argv \in {"none", "skip", "help", "bad"}
    /\ trace = <<>>
    /\ exitStatus = -1
    /\ uncaught = FALSE
    /\ summary_table = <<>>
    /\ filled_text = <<>>
    /\ csvFile \in CsvFiles
    /\ tplFile \in TplFiles
    /\ outFile \in OutFiles
    /\ child = "none"
    /\ script = <<>>
    /\ cpos = 0
    /\ returncode = -1
    /\ outPipe = <<>>
    /\ errPipe = <<>>
    /\ fwd = <<>>
    /\ launches = 0

DrvIdle ==
    /\ pc = "off"
    /\ argv = "none"
    /\ trace = <<>>
    /\ exitStatus = -1
    /\ uncaught = FALSE
    /\ summary_table = <<>>
    /\ filled_text = <<>>
    /\ csvFile = [state |-> "absent", data |-> <<>>]
    /\ tplFile = [state |-> "absent", text |-> <<>>]
    /\ outFile = [mode |-> "ok", exists |-> FALSE, text |-> <<>>]
    /\ child = "none"
    /\ script = <<>>
    /\ cpos = 0
    /\ returncode = -1
    /\ outPipe = <<>>
    /\ errPipe = <<>>
    /\ fwd = <<>>
    /\ launches = 0

childVars == <<child, script, cpos, returncode, outPipe, errPipe, fwd, launches>>
fileVars  == <<csvFile, tplFile, outFile>>
others    == <<fmtVars, tabVars, metVars>>

\* sys.exit(status) after the given steps and messages; an unhandled
\* exception ends the process with a traceback and status 1
Exit(status, events) ==
    /\ pc' = "exited"
    /\ exitStatus' = status
    /\ uncaught' = FALSE
    /\ trace' = trace \o events

Raise(events) ==
    /\ pc' = "exited"
    /\ exitStatus' = 1
    /\ uncaught' = TRUE
    /\ trace' = trace \o events

\* ParseArgs with the --skip-pipeline flag not honoured
ParseArgs_ignoresSkip ==
    /\ pc = "main"
    /\ CASE argv = "help" -> Exit(0, <<"print usage">>)
         [] argv = "bad"  -> Exit(2, <<"print usage">>)
         [] OTHER         -> /\ pc' = "run_snakemake_pipeline"
                             /\ UNCHANGED <<trace, exitStatus, uncaught>>
    /\ UNCHANGED <<argv, summary_table, filled_text, fileVars, childVars, others>>

\* main, lines 138-147: parse_args, then the branch on args.skip_pipeline
ParseArgs ==
    /\ pc = "main"
    /\ CASE argv = "help" -> Exit(0, <<"print usage">>)
         [] argv = "bad"  -> Exit(2, <<"print usage">>)
         [] argv = "skip" -> /\ pc' = "generate_summary_table"
                             /\ UNCHANGED <<trace, exitStatus, uncaught>>
         [] argv = "none" -> /\ pc' = "run_snakemake_pipeline"
                             /\ UNCHANGED <<trace, exitStatus, uncaught>>
    /\ UNCHANGED <<argv, summary_table, filled_text, fileVars, childVars, others>>

\* run_snakemake_pipeline, lines 38-45: Popen starts the child
Popen ==
    /\ pc = "run_snakemake_pipeline"
    /\ \E s \in ChildScripts :
        /\ script' = s
        /\ child' = "running"
        /\ launches' = launches + 1
        /\ pc' = "read_stdout"
        /\ trace' = trace \o <<"print Running the Snakemake pipeline...", "Popen">>
    /\ UNCHANGED <<argv, exitStatus, uncaught, summary_table, filled_text, fileVars,
                   cpos, returncode, outPipe, errPipe, fwd, others>>

\* Popen raises when the snakemake executable is not found
PopenFails ==
    /\ pc = "run_snakemake_pipeline"
    /\ Raise(<<"print Running the Snakemake pipeline...", "FileNotFoundError">>)
    /\ UNCHANGED <<argv, summary_table, filled_text, fileVars, childVars, others>>

\* the child writes its next line; the write blocks while the pipe is full
ChildWrite ==
    /\ child = "running"
    /\ cpos < Len(script)
    /\ IF script[cpos + 1] = "out"
       THEN /\ Len(outPipe) < PipeCap
            /\ outPipe' = Append(outPipe, cpos + 1)
            /\ UNCHANGED errPipe
       ELSE /\ Len(errPipe) < PipeCap
            /\ errPipe' = Append(errPipe, cpos + 1)
            /\ UNCHANGED outPipe
    /\ cpos' = cpos + 1
    /\ UNCHANGED <<pc, argv, trace, exitStatus, uncaught, summary_table, filled_text,
                   tplFile, outFile, csvFile, child, script, returncode, fwd,
                   launches, others>>

\* the child exits: both pipes reach end of file once drained; the workflow
\* may have produced, replaced or removed the CSV report
ChildExit ==
    /\ child = "running"
    /\ cpos = Len(script)
    /\ child' = "exited"
    /\ returncode' \in {0, 1}
    /\ csvFile' \in CsvFiles
    /\ UNCHANGED <<pc, argv, trace, exitStatus, uncaught, summary_table, filled_text,
                   tplFile, outFile, script, cpos, outPipe, errPipe, fwd, launches,
                   others>>

\* Forward losing the stderr lines
Forward_dropErr(stream, line) == IF stream = "err" THEN <<>> ELSE << <<stream, line>> >>

\* what sys.stdout.write / sys.stderr.write add to the forwarded lines
Forward(stream, line) == << <<stream, line>> >>

\* lines 46-47: for line in process.stdout: sys.stdout.write(line)
ReadStdout ==
    /\ pc = "read_stdout"
    /\ IF outPipe # <<>>
       THEN /\ fwd' = fwd \o Forward("out", Head(outPipe))
            /\ outPipe' = Tail(outPipe)
            /\ UNCHANGED pc
       ELSE /\ child = "exited"
            /\ pc' = "read_stderr"
            /\ UNCHANGED <<fwd, outPipe>>
    /\ UNCHANGED <<argv, trace, exitStatus, uncaught, summary_table, filled_text,
                   fileVars, child, script, cpos, returncode, errPipe, launches,
                   others>>

\* lines 48-49: for line in process.stderr: sys.stderr.write(line)
ReadStderr ==
    /\ pc = "read_stderr"
    /\ IF errPipe # <<>>
       THEN /\ fwd' = fwd \o Forward("err", Head(errPipe))
            /\ errPipe' = Tail(errPipe)
            /\ UNCHANGED pc
       ELSE /\ child = "exited"
            /\ pc' = "wait"
            /\ UNCHANGED <<fwd, errPipe>>
    /\ UNCHANGED <<argv, trace, exitStatus, uncaught, summary_table, filled_text,
                   fileVars, child, script, cpos, returncode, outPipe, launches,
                   others>>

\* WaitAndCheck with the exit status not inspected
WaitAndCheck_ignoresStatus ==
    /\ pc = "wait"
    /\ child = "exited"
    /\ pc' = "generate_summary_table"
    /\ trace' = trace \o <<"workflow done">>
    /\ UNCHANGED <<exitStatus, uncaught>>
    /\ UNCHANGED <<argv, summary_table, filled_text, fileVars, childVars, others>>

\* lines 51-54: process.wait(), then the exit status is inspected
WaitAndCheck ==
    /\ pc = "wait"
    /\ child = "exited"
    /\ IF returncode # 0
       THEN Exit(1, <<"returncode inspected", "print Snakemake pipeline failed.">>)
       ELSE /\ pc' = "generate_summary_table"
            /\ trace' = trace \o <<"returncode inspected", "workflow done">>
            /\ UNCHANGED <<exitStatus, uncaught>>
    /\ UNCHANGED <<argv, summary_table, filled_text, fileVars, childVars, others>>

\* TableNotFound returning an empty table instead of exiting
TableNotFound_returnsEmpty ==
    /\ pc = "generate_summary_table"
    /\ csvFile.state = "absent"
    /\ summary_table' = <<>>
    /\ pc' = "generate_readme"
    /\ trace' = trace \o <<"generate_summary_table", "print Error: csv not found.",
                           "summary table returned">>
    /\ UNCHANGED <<argv, exitStatus, uncaught, filled_text, fileVars, childVars, others>>

\* generate_summary_table, lines 65-78, called from main line 149
TableNotFound ==
    /\ pc = "generate_summary_table"
    /\ csvFile.state = "absent"
    /\ Exit(1, <<"generate_summary_table", "print Error: csv not found.">>)
    /\ UNCHANGED <<argv, summary_table, filled_text, fileVars, childVars, others>>

TableReadError ==
    /\ pc = "generate_summary_table"
    /\ csvFile.state = "unreadable"
    /\ Exit(1, <<"generate_summary_table", "print Loading", "print Error loading csv">>)
    /\ UNCHANGED <<argv, summary_table, filled_text, fileVars, childVars, others>>

TableOk ==
    /\ pc = "generate_summary_table"
    /\ csvFile.state = "ok"
    /\ summary_table' = Tabulate(ReadCsv(csvFile.data))
    /\ pc' = "generate_readme"
    /\ trace' = trace \o <<"generate_summary_table", "print Loading", "read csv",
                           "print Converting", "summary table returned">>
    /\ UNCHANGED <<argv, exitStatus, uncaught, filled_text, fileVars, childVars, others>>

\* ReadmeNotFound exiting with status 0
ReadmeNotFound_exit0 ==
    /\ pc = "generate_readme"
    /\ tplFile.state = "absent"
    /\ Exit(0, <<"generate_readme", "print Error: template not found.">>)
    /\ UNCHANGED <<argv, summary_table, filled_text, fileVars, childVars, others>>

\* generate_readme, lines 90-130, called from main line 150
ReadmeNotFound ==
    /\ pc = "generate_readme"
    /\ tplFile.state = "absent"
    /\ Exit(1, <<"generate_readme", "print Error: template not found.">>)
    /\ UNCHANGED <<argv, summary_table, filled_text, fileVars, childVars, others>>

\* lines 100-104: pkg_resources.get_distribution raises when a distribution
\* (snakemake, with --skip-pipeline) is not installed
ReadmeNoDistribution ==
    /\ pc = "generate_readme"
    /\ tplFile.state # "absent"
    /\ Raise(<<"generate_readme", "print Filling in", "DistributionNotFound">>)
    /\ UNCHANGED <<argv, summary_table, filled_text, fileVars, childVars, others>>

ReadmeReadError ==
    /\ pc = "generate_readme"
    /\ tplFile.state = "unreadable"
    /\ Exit(1, <<"generate_readme", "print Filling in", "open template",
                 "print Error reading template">>)
    /\ UNCHANGED <<argv, summary_table, filled_text, fileVars, childVars, others>>

\* lines 113-122: format raises; nothing catches it
ReadmeFormatRaises ==
    /\ pc = "generate_readme"
    /\ tplFile.state = "ok"
    /\ LET r == Format(tplFile.text, Substitutions(summary_table))
       IN  /\ r.status # "ok"
           /\ Raise(<<"generate_readme", "print Filling in", "open template",
                      "read template", r.status>>)
    /\ UNCHANGED <<argv, summary_table, filled_text, fileVars, childVars, others>>

\* lines 124-130: open(output_file, "w") raises; the file is left as it was
ReadmeOpenError ==
    /\ pc = "generate_readme"
    /\ tplFile.state = "ok"
    /\ outFile.mode = "open_fails"
    /\ LET r == Format(tplFile.text, Substitutions(summary_table))
       IN  /\ r.status = "ok"
           /\ filled_text' = r.text
    /\ Exit(1, <<"generate_readme", "print Filling in", "open template",
                 "read template", "print Writing", "open output",
                 "print Error writing output">>)
    /\ UNCHANGED <<argv, summary_table, fileVars, childVars, others>>

\* open succeeded and truncated the file, then f.write raises
ReadmeWriteError ==
    /\ pc = "generate_readme"
    /\ tplFile.state = "ok"
    /\ outFile.mode = "write_fails"
    /\ LET r == Format(tplFile.text, Substitutions(summary_table))
       IN  /\ r.status = "ok"
           /\ filled_text' = r.text
    /\ outFile' = [outFile EXCEPT !.exists = TRUE, !.text = <<>>]
    /\ Exit(1, <<"generate_readme", "print Filling in", "open template",
                 "read template", "print Writing", "open output",
                 "output truncated", "print Error writing output">>)
    /\ UNCHANGED <<argv, summary_table, csvFile, tplFile, childVars, others>>

ReadmeOk ==
    /\ pc = "generate_readme"
    /\ tplFile.state = "ok"
    /\ outFile.mode = "ok"
    /\ LET r == Format(tplFile.text, Substitutions(summary_table))
       IN  /\ r.status = "ok"
           /\ filled_text' = r.text
           /\ outFile' = [outFile EXCEPT !.exists = TRUE, !.text = r.text]
    /\ pc' = "finished"
    /\ trace' = trace \o <<"generate_readme", "print Filling in", "open template",
                           "read template", "print Writing", "open output",
                           "output written">>
    /\ UNCHANGED <<argv, exitStatus, uncaught, summary_table, csvFile, tplFile,
                   childVars, others>>

\* main, line 152, and the normal end of the process
Finished ==
    /\ pc = "finished"
    /\ Exit(0, <<"print Finished!">>)
    /\ UNCHANGED <<argv, summary_table, filled_text, fileVars, childVars, others>>

FmtIdle == f_pc = "off" /\ f_tpl = <<>> /\ f_table = <<>> /\ f_res = <<>>
TabIdle == t_pc = "off" /\ t_csv = <<>> /\ t_res = <<>>
MetIdle == m_pc = "off" /\ m_file = <<>> /\ m_sums = <<>>

Init == DrvInit /\ FmtIdle /\ TabIdle /\ MetIdle

Next ==
    \/ ParseArgs
    \/ Popen
    \/ PopenFails
    \/ ChildWrite
    \/ ChildExit
    \/ ReadStdout
    \/ ReadStderr
    \/ WaitAndCheck
    \/ TableNotFound
    \/ TableReadError
    \/ TableOk
    \/ ReadmeNotFound
    \/ ReadmeNoDistribution
    \/ ReadmeReadError
    \/ ReadmeFormatRaises
    \/ ReadmeOpenError
    \/ ReadmeWriteError
    \/ ReadmeOk
    \/ Finished

Spec == Init /\ [][Next]_vars

----------------------------------------------------------------------------
(* generate_readme's rendering over a wider set of templates and tables *)

BaseSets == { KeyNames, KeyNames \ {"summary_table"}, {"summary_table"}, {} }

FormatTemplates ==
    { BuildTemplate(pre, S, post) :
        pre \in SeqsUpTo(Extras, MaxExtras), post \in SeqsUpTo(Extras, MaxExtras),
        S \in BaseSets }

\* summary tables: rendered CSVs, and texts that look like template markup
FormatTables ==
    { Tabulate(ReadCsv(d)) : d \in DriverCsvs }
    \cup { <<>>, Piece("pipeline_name"), <<"{", "{", "x", "}">> }

FmtInit ==
    /\ f_pc = "start"
    /\ f_tpl \in FormatTemplates
    /\ f_table \in FormatTables
    /\ f_res = [status |-> "none", text |-> <<>>]

\* lines 113-122
FmtApply ==
    /\ f_pc = "start"
    /\ f_res' = Format(f_tpl, Substitutions(f_table))
    /\ f_pc' = "done"
    /\ UNCHANGED <<f_tpl, f_table, drvVars, tabVars, metVars>>

InitFormat == FmtInit /\ DrvIdle /\ TabIdle /\ MetIdle

NextFormat == FmtApply

SpecFormat == InitFormat /\ [][NextFormat]_vars

----------------------------------------------------------------------------
(* generate_summary_table's conversion over a wider set of CSV files *)

\* the cells a column may hold: integers; numbers, some not integers or
\* missing; text
CellSets == { {IntCell(0), IntCell(12)},
              {IntCell(3), FloatCell(123456), FloatCell(-49999), NanCell},
              {StrCell("HG002"), StrCell("HG003")} }

\* two-column CSV files with up to MaxRows data rows
TableCsvs ==
    UNION { { [header |-> <<"a", "b">>, rows |-> rs] :
                rs \in SeqsUpTo({<<x, y>> : x \in A, y \in B}, MaxRows) } :
            A \in CellSets, B \in CellSets }

TabInit ==
    /\ t_pc = "start"
    /\ t_csv \in TableCsvs
    /\ t_res = <<>>

\* lines 72 and 78
TabApply ==
    /\ t_pc = "start"
    /\ t_res' = Tabulate(ReadCsv(t_csv))
    /\ t_pc' = "done"
    /\ UNCHANGED <<t_csv, drvVars, fmtVars, metVars>>

InitTable == TabInit /\ DrvIdle /\ FmtIdle /\ MetIdle

NextTable == TabApply

SpecTable == InitTable /\ [][NextTable]_vars

----------------------------------------------------------------------------
(* stratified_performance_metrics.py *)
(* The input file is a sequence of lines, each                             *)
(* <<chrom, start, end, tpbase, tp, fn, fp>>, and has no header line.      *)

Counts == 0..MaxCount

MetricLines ==
    { <<"chr1", 0, 10, a, b, c, d>> : a \in Counts, b \in Counts, c \in Counts, d \in Counts }

MetricFiles == SeqsUpTo(MetricLines, MaxRows)

RECURSIVE SumColumn(_, _)
SumColumn(rows, c) ==
    IF rows = <<>> THEN 0 ELSE Head(rows)[c] + SumColumn(Tail(rows), c)

\* line 4: pd.read_csv(path, sep='\t') takes the first line as the header
\* and the lines after it as the rows of the frame
ReadTsv(lines) == Tail(lines)

\* line 10: df[["tpbase", "tp", "fn", "fp"]].sum(), columns 4 to 7 by the
\* names line 7 assigns
Sums(rows) ==
    [tpbase |-> SumColumn(rows, 4), tp |-> SumColumn(rows, 5),
     fn |-> SumColumn(rows, 6), fp |-> SumColumn(rows, 7)]

MetInit ==
    /\ m_pc = "start"
    /\ m_file \in MetricFiles
    /\ m_sums = <<>>

\* lines 4-19 on a file with at least one line: m_sums are the arguments of
\* truvari.performance_metrics
MetricsRun ==
    /\ m_pc = "start"
    /\ m_file # <<>>
    /\ m_sums' = Sums(ReadTsv(m_file))
    /\ m_pc' = "done"
    /\ UNCHANGED <<m_file, drvVars, fmtVars, tabVars>>

\* line 4 on an empty file: read_csv raises EmptyDataError
MetricsEmptyFile ==
    /\ m_pc = "start"
    /\ m_file = <<>>
    /\ m_pc' = "raised"
    /\ UNCHANGED <<m_file, m_sums, drvVars, fmtVars, tabVars>>

InitMetrics == MetInit /\ DrvIdle /\ FmtIdle /\ TabIdle

NextMetrics == MetricsRun \/ MetricsEmptyFile

SpecMetrics == InitMetrics /\ [][NextMetrics]_vars

----------------------------------------------------------------------------
(* Properties *)

Happened(e) == \E i \in 1..Len(trace) : trace[i] = e

Pos(e) == CHOOSE i \in 1..Len(trace) : trace[i] = e

\* when both happened, a happened first
Ordered(a, b) == (Happened(a) /\ Happened(b)) => Pos(a) < Pos(b)

IsPrefix(s, t) == Len(s) <= Len(t) /\ SubSeq(t, 1, Len(s)) = s

\* the output file was never opened for writing and holds what it held
OutputUntouched ==
    /\ ~Happened("open output")
    /\ outFile.text = (IF outFile.exists THEN <<"old">> ELSE <<>>)

\* the messages by which the driver reports a failure before sys.exit(1)
ErrorMessages ==
    { "print Snakemake pipeline failed.", "print Error: csv not found.",
      "print Error loading csv", "print Error: template not found.",
      "print Error reading template", "print Error writing output" }

Reported == \E m \in ErrorMessages : Happened(m)

\* the steps of the driver process itself (not of the child)
DriverNext ==
    \/ ParseArgs \/ Popen \/ PopenFails \/ ReadStdout \/ ReadStderr \/ WaitAndCheck
    \/ TableNotFound \/ TableReadError \/ TableOk
    \/ ReadmeNotFound \/ ReadmeNoDistribution \/ ReadmeReadError
    \/ ReadmeFormatRaises \/ ReadmeOpenError \/ ReadmeWriteError \/ ReadmeOk
    \/ Finished

\* C1: when generate_summary_table is reached and the CSV report does not
\* exist, the run ends with exit status 1, the template is never opened and
\* the output file is never opened for writing: it keeps its prior content.
C1_MissingCsvExits ==
    (csvFile.state = "absent" /\ Happened("generate_summary_table")) =>
        /\ pc = "exited"
        /\ exitStatus = 1
        /\ Happened("print Error: csv not found.")
        /\ ~Happened("open template")
        /\ ~Happened("read template")
        /\ OutputUntouched

C1_Witness ==
    /\ pc = "exited"
    /\ csvFile.state = "absent"
    /\ Happened("generate_summary_table")
    /\ launches = 1
    /\ tplFile.state = "ok"
    /\ outFile.exists /\ outFile.mode = "ok"

\* C2 as stated: in any run in which the CSV report exists and is readable
\* and the template does not exist, the run ends with exit status 1 only
\* after generate_summary_table returned the table, and the output file is
\* never written.  (Stated for the runs that launched the workflow child.)
C2_AnyRunProducesTable ==
    (pc = "exited" /\ child = "exited"
        /\ csvFile.state = "ok" /\ tplFile.state = "absent") =>
        /\ exitStatus = 1
        /\ Happened("summary table returned")
        /\ OutputUntouched

\* C2 amended: in any run that reaches generate_summary_table (the workflow
\* was skipped or its child exited with status 0) with the CSV report
\* existing and readable and the template missing, the run ends with exit
\* status 1, after generate_summary_table returned the table, with the
\* template not opened and the output file not written.
C2_MissingTemplateExits ==
    (pc = "exited" /\ Happened("generate_summary_table")
        /\ csvFile.state = "ok" /\ tplFile.state = "absent") =>
        /\ exitStatus = 1
        /\ ~uncaught
        /\ Happened("summary table returned")
        /\ Happened("print Error: template not found.")
        /\ Ordered("summary table returned", "print Error: template not found.")
        /\ summary_table = Tabulate(ReadCsv(csvFile.data))
        /\ ~Happened("open template")
        /\ OutputUntouched

C2_Witness ==
    /\ pc = "exited"
    /\ Happened("generate_summary_table")
    /\ csvFile.state = "ok"
    /\ tplFile.state = "absent"
    /\ launches = 1
    /\ outFile.exists

\* C3: without --skip-pipeline, when the workflow child exits with a
\* non-zero status the driver reports the failure and ends with exit status
\* 1 and neither generate_summary_table nor generate_readme ever starts; and
\* the child is launched at most once in every run.
C3_WorkflowFailureStops ==
    /\ launches <= 1
    /\ (argv = "none" /\ child = "exited" /\ returncode # 0) =>
        /\ pc \notin {"generate_summary_table", "generate_readme", "finished"}
        /\ ~Happened("generate_summary_table")
        /\ ~Happened("generate_readme")
        /\ pc = "exited" =>
            /\ exitStatus = 1
            /\ Happened("print Snakemake pipeline failed.")

C3_Witness ==
    /\ pc = "exited"
    /\ argv = "none"
    /\ child = "exited"
    /\ returncode = 1
    /\ Len(fwd) = 2
    /\ csvFile.state = "ok" /\ tplFile.state = "ok"

\* a named placeholder of the template that is none of the driver's keys
HasUnknownPlaceholder(t) ==
    \E f \in FieldSet(t) :
        Len(f) = 1 /\ f[1] \notin KeyNames \cup {"{", "}"}

\* C4: when the template that generate_readme read holds a named
\* placeholder that is none of the eight substitution keys, the driver
\* fails with a reported error and a non-zero exit status, as it does when
\* writing the output fails, and the output file is not written.
C4_UnknownPlaceholderReported ==
    (pc = "exited" /\ Happened("read template")
        /\ HasUnknownPlaceholder(tplFile.text)) =>
        /\ exitStatus # 0
        /\ ~uncaught
        /\ Reported
        /\ OutputUntouched

\* C5: the steps run in the order workflow, summary table, report; each
\* starts only after the one before completed successfully and no step
\* starts after a failure.  With --skip-pipeline the child is never launched
\* and the other two steps still run in order.  "Finished!" and exit
\* status 0 are reached only when the output file was written.
C5_StepsInOrder ==
    /\ argv = "skip" => (launches = 0 /\ child = "none" /\ ~Happened("Popen"))
    /\ (pc = "generate_summary_table" \/ Happened("generate_summary_table")) =>
        \/ argv = "skip"
        \/ Happened("workflow done") /\ returncode = 0
    /\ (pc = "generate_readme" \/ Happened("generate_readme")) =>
        Happened("summary table returned")
    /\ (pc = "finished" \/ Happened("print Finished!")) => Happened("output written")
    /\ Ordered("Popen", "workflow done")
    /\ Ordered("workflow done", "generate_summary_table")
    /\ Ordered("generate_summary_table", "summary table returned")
    /\ Ordered("summary table returned", "generate_readme")
    /\ Ordered("generate_readme", "output written")
    /\ Ordered("output written", "print Finished!")
    /\ Happened("print Finished!") =>
        /\ exitStatus = 0
        /\ outFile.exists
        /\ outFile.text = filled_text
    /\ (exitStatus = 0 /\ argv \in {"none", "skip"}) => Happened("print Finished!")
    /\ pc = "exited" => ~ENABLED DriverNext

C5_Witness ==
    /\ pc = "exited"
    /\ exitStatus = 0
    /\ argv = "none"
    /\ Happened("print Finished!")
    /\ Len(fwd) = 2

\* the lines of one stream of the child, in the order the child wrote them
StreamLines(s, st) ==
    LET idx == SelectSeq([i \in 1..Len(s) |-> i], LAMBDA i : s[i] = st)
    IN  [k \in 1..Len(idx) |-> <<st, idx[k]>>]

C10_NoPipeDeadlock ==
    ~ ( /\ pc = "read_stdout"
        /\ outPipe = <<>>
        /\ child = "running"
        /\ cpos < Len(script)
        /\ script[cpos + 1] = "err"
        /\ Len(errPipe) >= PipeCap )

\* C7: the four sums passed to the external formula are the sums of
\* columns 4 to 7 over all lines of the input file, the first included.
C7_SumsOverAllLines ==
    m_pc = "done" => m_sums = Sums(m_file)

\* the template's placeholders are exactly the driver's eight keys
ExactKeys(t) == FieldSet(t) = {<<k>> : k \in KeyNames}

\* C8: for every template whose placeholders are exactly the eight keys and
\* every summary table text, rendering succeeds, the rendered text holds the
\* table text verbatim, and it holds no unsubstituted placeholder marker:
\* its only braces are the template's escaped braces and the braces of the
\* table text itself.
C8_RenderedVerbatim ==
    (f_pc = "done" /\ ExactKeys(f_tpl)) =>
        /\ f_res.status = "ok"
        /\ Contains(f_res.text, f_table)
        /\ Braces(f_res.text) =
              Escapes(f_tpl) + Count(<<"summary_table">>, Fields(f_tpl)) * Braces(f_table)

C8_Witness ==
    /\ f_pc = "done"
    /\ ExactKeys(f_tpl)
    /\ Escapes(f_tpl) > 0
    /\ Braces(f_table) > 0
    /\ f_res.status = "ok"

\* ---- the rendered table, read back
TableLines == Split(t_res, "\n")

\* the text of data row r, column c
TableCell(r, c) == LineCells(TableLines[r + 2])[c]

HasTextColumn(csv) ==
    \E r \in 1..Len(csv.rows) : \E c \in 1..Len(csv.header) : csv.rows[r][c].k = "str"

IntegerColumn(csv, c) == \A r \in 1..Len(csv.rows) : csv.rows[r][c].k = "int"

\* C9 as stated: the table of a CSV with N data rows has N+1 row lines (the
\* header and N data lines) and every numeric cell, integer or floating
\* point, is formatted with exactly 4 decimal places.
C9_EveryNumericCellFourDecimals ==
    t_pc = "done" =>
        /\ Len(TableLines) - 1 = Len(t_csv.rows) + 1
        /\ \A r \in 1..Len(t_csv.rows) : \A c \in 1..Len(t_csv.header) :
              t_csv.rows[r][c].k \in {"int", "float"} => Decimals(TableCell(r, c)) = 4

\* C9 amended: the table has one header line, one alignment line and N data
\* lines, each with one cell per CSV column (no index column); every
\* floating-point cell is formatted with exactly 4 decimal places; the
\* cells of an integer column of a CSV that has a text column are printed
\* as integers, with no decimal places.
C9_TableShape ==
    t_pc = "done" =>
        /\ Len(TableLines) = Len(t_csv.rows) + 2
        /\ LineCells(TableLines[1]) = [c \in 1..Len(t_csv.header) |-> <<t_csv.header[c]>>]
        /\ \A c \in 1..Len(t_csv.header) :
              LineCells(TableLines[2])[c] \in {<<"-", ":">>, <<":", "-">>}
        /\ \A l \in 1..Len(TableLines) :
              Len(LineCells(TableLines[l])) = Len(t_csv.header)
        /\ \A r \in 1..Len(t_csv.rows) : \A c \in 1..Len(t_csv.header) :
              LET cell == t_csv.rows[r][c] IN
              /\ cell.k = "float" => Decimals(TableCell(r, c)) = 4
              /\ (cell.k = "int" /\ HasTextColumn(t_csv) /\ IntegerColumn(t_csv, c)) =>
                    TableCell(r, c) = IntText(cell.v)

C9_Witness ==
    /\ t_pc = "done"
    /\ Len(t_csv.rows) = 2
    /\ HasTextColumn(t_csv)
    /\ IntegerColumn(t_csv, 2)
    /\ TableCell(2, 2) = <<"1", "2">>

====
